---- MODULE Spec2Model ----
(***************************************************************************)
(* Model of streamlit_app.py: the SentimentDatabase data-access layer, the *)
(* sample-data seeder and the three pages of main(), over one SQLite file  *)
(* reached through a process-wide cached connection (st.cache_resource).   *)
(*                                                                         *)
(* Conventions.  Python None is the value None (for strings) or NoId (for  *)
(* row ids); scores are tenths (0.5 is 5, 0.3 is 3).  A statement executed *)
(* inside one of the code's try blocks may raise (database locked, I/O     *)
(* error): the Boolean "fail" inputs choose that outcome.  The CREATE      *)
(* TABLE statements of _initialize_db are only made to raise by a closed   *)
(* handle.  A commit on an open handle succeeds.                           *)
(***************************************************************************)
EXTENDS Integers, Sequences, FiniteSets, TLC

VARIABLES cache, constructed, inits, pc, tables, songs, pending, analyses, qa, last

vars == <<cache, constructed, inits, pc, tables, songs, pending, analyses, qa, last>>

(* ------------------------------ bounds --------------------------------- *)

\* Rows written besides the seeder's: sentiment_analysis rows of API-level
\* save_sentiment_analysis calls plus sentiment_qa rows.
MaxRows == 1

\* Statements that raise within one run of the seeder.
MaxFailures == 1

(* ------------------------------ values --------------------------------- *)

None == "<None>"

NoId == 0

SongIdArgs == {1, 3}

ModelNameArgs == {"VADER"}

ScoreArgs == {5}

Filters == {None, "", "VADER"}

AccuracyChoices == {"Yes", "No", "Partially"}

Explanations == {"", "why"}

Reviewers == {"Ann"}

Feedbacks == {""}

TableNames == <<"songs", "sentiment_analysis", "sentiment_qa">>

sample_songs == <<"Hotline Bling", "God's Plan">>

Range(s) == {s[i] : i \in 1..Len(s)}

(* ------------------------- connection handling -------------------------- *)

\* The database as one value: the cache entry of get_connection(db_path)
\* ("none": no entry, "open"/"closed": the state of the cached handle), the
\* committed content of the file, and the rows inserted but not committed on
\* the cached handle (only song rows can be in that position).
DB == [cache |-> cache, tables |-> tables, songs |-> songs, pending |-> pending,
       analyses |-> analyses, qa |-> qa]

\* SentimentDatabase._get_connection: the cached handle when there is one,
\* whatever its state; otherwise get_connection runs and either caches a new
\* open handle (ok) or raises, and a fresh empty in-memory database is handed out.
_get_connection(D, ok) ==
    IF D.cache = "open" THEN [D |-> D, h |-> "file", msgs |-> {}]
    ELSE IF D.cache = "closed" THEN [D |-> D, h |-> "closed", msgs |-> {}]
    ELSE IF ok THEN [D |-> [D EXCEPT !.cache = "open"], h |-> "file", msgs |-> {}]
    ELSE [D |-> D, h |-> "mem", msgs |-> {"Database connection error"}]

\* A statement on handle h against the three tables executes: the handle is
\* open ("Cannot operate on a closed database" otherwise), the tables exist
\* where it points ("no such table" in a fresh in-memory database or a file
\* never initialised), and the engine does not fail.
Executes(D, h, fail) == h = "file" /\ Len(D.tables) > 0 /\ ~fail

\* What the cached handle sees: committed rows and its own uncommitted ones.
View(D) == D.songs \o D.pending

\* conn.commit() on the cached handle.
Commit(D) == [D EXCEPT !.songs = D.songs \o D.pending, !.pending = <<>>]

(* ------------------------------ schema ---------------------------------- *)

CreateTableIfNotExists(t, name) ==
    IF \E i \in 1..Len(t) : t[i] = name THEN t ELSE Append(t, name)

\* SentimentDatabase.__init__ / _initialize_db: no try block, so a closed
\* handle raises out of the constructor; otherwise the three CREATE TABLE IF
\* NOT EXISTS run, the handle is committed and then closed.  The closed
\* handle stays in the cache.
_initialize_db(D, ok) ==
    LET c == _get_connection(D, ok) IN
    IF c.h = "closed" THEN [D |-> c.D, raised |-> TRUE, msgs |-> c.msgs, h |-> c.h]
    ELSE IF c.h = "mem" THEN [D |-> c.D, raised |-> FALSE, msgs |-> c.msgs, h |-> c.h]
    ELSE LET t1 == CreateTableIfNotExists(c.D.tables, TableNames[1])
             t2 == CreateTableIfNotExists(t1, TableNames[2])
             t3 == CreateTableIfNotExists(t2, TableNames[3])
             D1 == Commit([c.D EXCEPT !.tables = t3])
         IN [D |-> [D1 EXCEPT !.cache = "closed"], raised |-> FALSE,
             msgs |-> c.msgs, h |-> c.h]

(* ------------------------------ queries --------------------------------- *)

HasSong(V, id) == \E i \in 1..Len(V) : V[i].id = id

TitleOf(V, id) == (CHOOSE s \in Range(V) : s.id = id).title

\* "if model_name:" -- None and the empty string both select the unfiltered query.
UseFilter(model_name) == model_name # None /\ model_name # ""

\* The SELECT ... JOIN songs ... [WHERE sa.model_name = ?] and the loop that
\* builds the result dictionaries.
SelectAnalyses(D, model_name) ==
    LET V == View(D)
        joined == SelectSeq(D.analyses, LAMBDA a : HasSong(V, a.song_id))
        rows == IF UseFilter(model_name)
                THEN SelectSeq(joined, LAMBDA a : a.model_name = model_name)
                ELSE joined
    IN [i \in 1..Len(rows) |->
          [id |-> rows[i].id, song_id |-> rows[i].song_id,
           title |-> TitleOf(V, rows[i].song_id), model_name |-> rows[i].model_name,
           sentiment_score |-> rows[i].sentiment_score,
           sentiment_category |-> rows[i].sentiment_category]]

get_sentiment_analyses(D, model_name, ok, fail) ==
    LET c == _get_connection(D, ok) IN
    IF Executes(c.D, c.h, fail)
    THEN [D |-> c.D, out |-> SelectAnalyses(c.D, model_name), msgs |-> c.msgs]
    ELSE [D |-> c.D, out |-> <<>>,
          msgs |-> c.msgs \cup {"Error retrieving sentiment analyses"}]

\* INSERT INTO sentiment_analysis, lastrowid, commit.  Foreign keys are
\* declared but the handle never enables their enforcement, so any song_id
\* is accepted.
save_sentiment_analysis(D, song_id, model_name, sentiment_score, sentiment_category, ok, fail) ==
    LET c == _get_connection(D, ok) IN
    IF Executes(c.D, c.h, fail)
    THEN LET sa_id == Len(c.D.analyses) + 1
             row == [id |-> sa_id, song_id |-> song_id, model_name |-> model_name,
                     sentiment_score |-> sentiment_score,
                     sentiment_category |-> sentiment_category]
         IN [D |-> Commit([c.D EXCEPT !.analyses = Append(c.D.analyses, row)]),
             ret |-> sa_id, msgs |-> c.msgs]
    ELSE [D |-> c.D, ret |-> NoId,
          msgs |-> c.msgs \cup {"Error saving sentiment analysis"}]

(* ------------------------------- seeder --------------------------------- *)

\* "if count == 0:"
SeedNeeded_always(count) == TRUE

SeedNeeded(count) == count = 0

\* "song_id = cursor.lastrowid"
SeedSongId_next(lastrowid) == lastrowid + 1

SeedSongId(lastrowid) == lastrowid

\* The loop over sample_songs from its i-th song on: the INSERT INTO songs
\* (left uncommitted), then the two save_sentiment_analysis calls, each of
\* which swallows its own failure and, when it succeeds, commits the shared
\* handle.  A failing song insert leaves the loop through the inner except,
\* without the final commit and without a rollback.  songFails and saveFails
\* are the statements that raise: song i, and analysis 2i-1 (VADER) and 2i
\* (TextBlob).
RECURSIVE SeedLoop(_, _, _, _, _)
SeedLoop(D, i, songFails, saveFails, msgs) ==
    IF i > Len(sample_songs) THEN [D |-> Commit(D), msgs |-> msgs]
    ELSE IF i \in songFails THEN [D |-> D, msgs |-> msgs \cup {"Error adding sample data"}]
    ELSE LET lastrowid == Len(View(D)) + 1
             D1 == [D EXCEPT !.pending =
                       Append(D.pending, [id |-> lastrowid, title |-> sample_songs[i]])]
             song_id == SeedSongId(lastrowid)
             s1 == save_sentiment_analysis(D1, song_id, "VADER", 5, "Neutral",
                                           TRUE, (2 * i - 1) \in saveFails)
             s2 == save_sentiment_analysis(s1.D, song_id, "TextBlob", 3, "Slightly Positive",
                                           TRUE, (2 * i) \in saveFails)
         IN SeedLoop(s2.D, i + 1, songFails, saveFails, msgs \cup s1.msgs \cup s2.msgs)

\* initialize_sample_data: SELECT COUNT(*) FROM songs on the handle, and the
\* loop when the count is zero.  A handle that cannot run the SELECT ends in
\* the outer except.
initialize_sample_data(D, ok, songFails, saveFails) ==
    LET c == _get_connection(D, ok) IN
    IF ~Executes(c.D, c.h, FALSE)
    THEN [D |-> c.D, msgs |-> c.msgs \cup {"Database initialization error"}]
    ELSE LET count == Len(View(c.D)) IN
         IF SeedNeeded(count) THEN SeedLoop(c.D, 1, songFails, saveFails, c.msgs)
         ELSE [D |-> c.D, msgs |-> c.msgs]

(* ---------------------------- feedback page ----------------------------- *)

\* "if explanation:"
ExplanationGiven_always(explanation) == TRUE

ExplanationGiven(explanation) == explanation # ""

\* The radio selection converted for the is_accurate column.
IsAccurateBool(is_accurate) ==
    IF is_accurate = "Yes" THEN "True"
    ELSE IF is_accurate = "No" THEN "False"
    ELSE None

\* The parameters of INSERT INTO sentiment_qa.
FeedbackRow_swapped(qa_id, selected_analysis, explanation, feedback, is_accurate, reviewer) ==
    [id |-> qa_id, song_id |-> selected_analysis.id,
     sentiment_analysis_id |-> selected_analysis.song_id,
     explanation |-> explanation, feedback |-> feedback,
     is_accurate |-> IsAccurateBool(is_accurate), reviewer |-> reviewer]

FeedbackRow(qa_id, selected_analysis, explanation, feedback, is_accurate, reviewer) ==
    [id |-> qa_id, song_id |-> selected_analysis["song_id"],
     sentiment_analysis_id |-> selected_analysis["id"],
     explanation |-> explanation, feedback |-> feedback,
     is_accurate |-> IsAccurateBool(is_accurate), reviewer |-> reviewer]

\* The "Provide Feedback" branch of main(): list the analyses, stop with a
\* warning when there are none, take the selected one, and on submit either
\* insert and commit one sentiment_qa row, report the insert's failure, or
\* ask for the missing explanation.  shown tells whether the form was
\* rendered, sel is the index of the analysis under review.
FeedbackPage(D, in) ==
    LET l == get_sentiment_analyses(D, None, in.okList, in.failList) IN
    IF Len(l.out) = 0
    THEN [D |-> l.D, shown |-> FALSE, listed |-> l.out,
          msgs |-> l.msgs \cup {"No sentiment analyses available for feedback."}]
    ELSE LET selected_analysis == l.out[in.selected] IN
         IF ~in.submit THEN [D |-> l.D, shown |-> TRUE, listed |-> l.out, msgs |-> l.msgs]
         ELSE IF ~ExplanationGiven(in.explanation)
         THEN [D |-> l.D, shown |-> TRUE, listed |-> l.out,
               msgs |-> l.msgs \cup {"Please provide an explanation for your feedback."}]
         ELSE LET c == _get_connection(l.D, TRUE) IN
              IF Executes(c.D, c.h, in.failInsert)
              THEN LET row == FeedbackRow(Len(c.D.qa) + 1, selected_analysis,
                                          in.explanation, in.feedback,
                                          in.is_accurate, in.reviewer)
                   IN [D |-> Commit([c.D EXCEPT !.qa = Append(c.D.qa, row)]),
                       shown |-> TRUE, listed |-> l.out,
                       msgs |-> l.msgs \cup c.msgs \cup {"Thank you for your feedback!"}]
              ELSE [D |-> c.D, shown |-> TRUE, listed |-> l.out,
                    msgs |-> l.msgs \cup c.msgs \cup {"Error saving feedback"}]

(* --------------------------- what a step shows --------------------------- *)

\* What the last step did, as its caller or the user sees it: the operation,
\* whether an exception left it, the messages displayed, the value returned,
\* the inputs it was given, the row counts it started from (nSongs,
\* nAnalyses) and whether the engine failed a statement that would otherwise
\* have executed (fault).  Fields a step does not use keep these values.
NoObs ==
    [op |-> "init", raised |-> FALSE, msgs |-> {}, ret |-> NoId, listed |-> <<>>,
     filter |-> None, afterSave |-> FALSE, song_id |-> NoId, model_name |-> None,
     score |-> 0, existed |-> FALSE, startEmpty |-> FALSE, nSongs |-> 0,
     nAnalyses |-> 0, inMain |-> FALSE, shown |-> FALSE, submit |-> FALSE,
     explanation |-> "", selected |-> 0, fault |-> FALSE]

StoreEmpty(D) == Len(D.songs) = 0 /\ Len(D.analyses) = 0

\* Rows written besides the seeder's (the seeder always passes a category,
\* the API-level calls of this model never do).
RowsWritten ==
    Cardinality({i \in 1..Len(analyses) : analyses[i].sentiment_category = None}) + Len(qa)

Max1(n) == IF n < 1 THEN 1 ELSE n

SetDB(D) ==
    /\ cache' = D.cache
    /\ tables' = D.tables
    /\ songs' = D.songs
    /\ pending' = D.pending
    /\ analyses' = D.analyses
    /\ qa' = D.qa

\* _initialize_db runs that went to the cached handle of db_path in this
\* process (2 stands for "two or more").
CountInit(r) == IF r.h = "mem" THEN inits ELSE IF inits < 2 THEN inits + 1 ELSE 2

\* get_connection can only raise when it runs, that is when nothing is cached.
MayRaise(ok) == ok \/ cache = "none"

\* The engine can only fail a statement that reaches it and would execute.
MayFail(fail, ok) ==
    fail => LET c == _get_connection(DB, ok) IN Executes(c.D, c.h, FALSE)

(* ------------------------------- actions -------------------------------- *)

Init ==
    /\ cache = "none"
    /\ constructed = FALSE
    /\ inits = 0
    /\ pc = "idle"
    /\ tables = <<>>
    /\ songs = <<>>
    /\ pending = <<>>
    /\ analyses = <<>>
    /\ qa = <<>>
    /\ last = NoObs

\* db = SentimentDatabase(), called by code other than main().
Construct ==
    /\ pc = "idle"
    /\ \E ok \in BOOLEAN :
         /\ MayRaise(ok)
         /\ LET r == _initialize_db(DB, ok) IN
            /\ SetDB(r.D)
            /\ constructed' = (constructed \/ ~r.raised)
            /\ inits' = CountInit(r)
            /\ last' = [NoObs EXCEPT !.op = "construct", !.raised = r.raised,
                                     !.msgs = r.msgs]
    /\ UNCHANGED pc

\* main() up to and including "db = SentimentDatabase()": an exception of the
\* constructor leaves main(), otherwise the run goes on to the seeder.
MainStart ==
    /\ pc = "idle"
    /\ \E ok \in BOOLEAN :
         /\ MayRaise(ok)
         /\ LET r == _initialize_db(DB, ok) IN
            /\ SetDB(r.D)
            /\ constructed' = (constructed \/ ~r.raised)
            /\ inits' = CountInit(r)
            /\ pc' = IF r.raised THEN "idle" ELSE "seed"
            /\ last' = [NoObs EXCEPT !.op = "main", !.raised = r.raised, !.msgs = r.msgs,
                                     !.inMain = TRUE, !.startEmpty = StoreEmpty(DB)]

\* initialize_sample_data(db), as the second statement of main() or called on
\* a constructed object.
Seed ==
    /\ pc = "seed" \/ (pc = "idle" /\ constructed)
    /\ \E ok \in BOOLEAN, songFails \in SUBSET {1, 2}, saveFails \in SUBSET {1, 2, 3, 4} :
         /\ MayRaise(ok)
         /\ Cardinality(songFails) + Cardinality(saveFails) <= MaxFailures
         /\ MayFail(songFails \cup saveFails # {}, ok)
         /\ LET r == initialize_sample_data(DB, ok, songFails, saveFails) IN
            /\ SetDB(r.D)
            /\ last' = [NoObs EXCEPT !.op = "seed", !.msgs = r.msgs,
                                     !.inMain = (pc = "seed"),
                                     !.startEmpty = (pc = "seed" /\ last.startEmpty),
                                     !.nSongs = Len(songs), !.nAnalyses = Len(analyses),
                                     !.fault = (songFails \cup saveFails # {})]
    /\ pc' = IF pc = "seed" THEN "page" ELSE "idle"
    /\ UNCHANGED <<constructed, inits>>

\* The "Home" and "View Analytics" pages: both list every analysis and show
\* the table (and the chart of the per-model means) or the empty-state text.
ViewPage ==
    /\ pc = "page"
    /\ \E ok \in BOOLEAN, fail \in BOOLEAN :
         /\ MayRaise(ok)
         /\ MayFail(fail, ok)
         /\ LET r == get_sentiment_analyses(DB, None, ok, fail) IN
            /\ SetDB(r.D)
            /\ last' = [NoObs EXCEPT !.op = "view", !.inMain = TRUE, !.listed = r.out,
                          !.fault = fail,
                          !.msgs = r.msgs \cup (IF Len(r.out) = 0
                                                THEN {"No sentiment analyses available yet."}
                                                ELSE {})]
    /\ pc' = "idle"
    /\ UNCHANGED <<constructed, inits>>

\* The "Provide Feedback" page in a run whose form is not being submitted.
FeedbackView ==
    /\ pc = "page"
    /\ \E okList \in BOOLEAN, failList \in BOOLEAN :
         /\ MayRaise(okList)
         /\ MayFail(failList, okList)
         /\ LET in == [okList |-> okList, failList |-> failList, failInsert |-> FALSE,
                       submit |-> FALSE, selected |-> 1, is_accurate |-> "Yes",
                       explanation |-> "", reviewer |-> "", feedback |-> ""]
                r == FeedbackPage(DB, in)
            IN
            /\ SetDB(r.D)
            /\ last' = [NoObs EXCEPT !.op = "feedback", !.inMain = TRUE, !.msgs = r.msgs,
                          !.listed = r.listed, !.shown = r.shown, !.fault = failList]
    /\ pc' = "idle"
    /\ UNCHANGED <<constructed, inits>>

\* The "Provide Feedback" page in the run that "Submit Feedback" starts, with
\* the widget values of that run.
FeedbackSubmit ==
    /\ pc = "page"
    /\ \E okList \in BOOLEAN, failList \in BOOLEAN, failInsert \in BOOLEAN,
          selected \in 1..Max1(Len(SelectAnalyses(DB, None))),
          is_accurate \in AccuracyChoices, explanation \in Explanations,
          reviewer \in Reviewers, feedback \in Feedbacks :
         /\ MayRaise(okList)
         /\ MayFail(failList, okList)
         /\ explanation # "" => RowsWritten < MaxRows
         /\ LET in == [okList |-> okList, failList |-> failList, failInsert |-> failInsert,
                       submit |-> TRUE, selected |-> selected, is_accurate |-> is_accurate,
                       explanation |-> explanation, reviewer |-> reviewer,
                       feedback |-> feedback]
                r == FeedbackPage(DB, in)
            IN
            /\ failInsert => (r.shown /\ ExplanationGiven(explanation))
            /\ ~r.shown => selected = 1
            /\ SetDB(r.D)
            /\ last' = [NoObs EXCEPT !.op = "feedback", !.inMain = TRUE, !.msgs = r.msgs,
                          !.listed = r.listed, !.shown = r.shown, !.submit = TRUE,
                          !.explanation = explanation,
                          !.selected = IF r.shown THEN selected ELSE 0,
                          !.fault = (failList \/ failInsert)]
    /\ pc' = "idle"
    /\ UNCHANGED <<constructed, inits>>

\* db.get_sentiment_analyses(model_name) called on a constructed object.  The
\* step remembers a save_sentiment_analysis call it directly follows.
List ==
    /\ pc = "idle" /\ constructed
    /\ \E model_name \in Filters, ok \in BOOLEAN, fail \in BOOLEAN :
         /\ MayRaise(ok)
         /\ MayFail(fail, ok)
         /\ LET r == get_sentiment_analyses(DB, model_name, ok, fail) IN
            /\ SetDB(r.D)
            /\ last' = IF last.op = "save"
                       THEN [last EXCEPT !.op = "list", !.afterSave = TRUE, !.msgs = r.msgs,
                                         !.listed = r.out, !.filter = model_name,
                                         !.fault = (last.fault \/ fail)]
                       ELSE [NoObs EXCEPT !.op = "list", !.msgs = r.msgs, !.fault = fail,
                                          !.listed = r.out, !.filter = model_name]
    /\ UNCHANGED <<constructed, inits, pc>>

\* db.save_sentiment_analysis(song_id, model_name, sentiment_score) called on
\* a constructed object, with any song_id.
Save ==
    /\ pc = "idle" /\ constructed
    /\ RowsWritten < MaxRows
    /\ \E song_id \in SongIdArgs, model_name \in ModelNameArgs, score \in ScoreArgs,
          ok \in BOOLEAN, fail \in BOOLEAN :
         /\ MayRaise(ok)
         /\ MayFail(fail, ok)
         /\ LET r == save_sentiment_analysis(DB, song_id, model_name, score, None, ok, fail) IN
            /\ SetDB(r.D)
            /\ last' = [NoObs EXCEPT !.op = "save", !.msgs = r.msgs, !.ret = r.ret,
                                     !.song_id = song_id, !.model_name = model_name,
                                     !.score = score, !.fault = fail,
                                     !.existed = HasSong(View(DB), song_id)]
    /\ UNCHANGED <<constructed, inits, pc>>

\* The process ends and a new one starts: the connection cache and the objects
\* are gone, the uncommitted rows of the old handle are rolled back, the file
\* stays.
Restart ==
    /\ cache' = "none"
    /\ constructed' = FALSE
    /\ inits' = 0
    /\ pc' = "idle"
    /\ pending' = <<>>
    /\ last' = [NoObs EXCEPT !.op = "restart"]
    /\ UNCHANGED <<tables, songs, analyses, qa>>

Next ==
    \/ Construct
    \/ MainStart
    \/ Seed
    \/ ViewPage
    \/ FeedbackView
    \/ FeedbackSubmit
    \/ List
    \/ Save
    \/ Restart

Spec == Init /\ [][Next]_vars

(* ------------------------------- claims --------------------------------- *)

AnalysesOf(song_id, model_name) ==
    {i \in 1..Len(analyses) :
        analyses[i].song_id = song_id /\ analyses[i].model_name = model_name}

\* Every song has exactly two analyses, one "VADER" and one "TextBlob".
TwoAnalysesEach ==
    \A k \in 1..Len(songs) :
        /\ Cardinality({i \in 1..Len(analyses) : analyses[i].song_id = songs[k].id}) = 2
        /\ Cardinality(AnalysesOf(songs[k].id, "VADER")) = 1
        /\ Cardinality(AnalysesOf(songs[k].id, "TextBlob")) = 1

\* C1: a start-up sequence of main() (the constructor, then the seeder) that
\* began on an empty store, with no statement failed by the engine, leaves 2
\* songs and 4 analyses, one VADER and one TextBlob analysis per song.
C1_StartupSeedsSample ==
    (last.op = "seed" /\ last.inMain /\ last.startEmpty /\ ~last.fault)
        => (Len(songs) = 2 /\ Len(analyses) = 4 /\ TwoAnalysesEach)

\* C2: the second and later runs of _initialize_db on the cached handle of
\* db_path in one process raise nothing and leave exactly the three tables,
\* each once.
C2_SchemaInitIdempotent ==
    (last.op \in {"construct", "main"} /\ inits = 2)
        => (~last.raised /\ tables = TableNames)

\* C3: no step of a run of main() ends with an exception leaving main().
C3_NoFailureLeavesMain ==
    last.inMain => ~last.raised

\* C4: a feedback step submitted with an empty explanation leaves the
\* sentiment_qa rows as they were.
C4_EmptyExplanationInsertsNothing ==
    [][(last'.op = "feedback" /\ last'.submit /\ last'.explanation = "") => qa' = qa]_vars

\* C4 witness: the form was rendered and submitted with an empty explanation,
\* and the page asked for one.
C4_Witness ==
    /\ last.op = "feedback" /\ last.shown /\ last.submit /\ last.explanation = ""
    /\ "Please provide an explanation for your feedback." \in last.msgs

\* The step appended one sentiment_qa row, for the analysis under review.
AddsOneMatchingRow ==
    /\ Len(qa') = Len(qa) + 1
    /\ SubSeq(qa', 1, Len(qa)) = qa
    /\ qa'[Len(qa')].song_id = last'.listed[last'.selected].song_id
    /\ qa'[Len(qa')].sentiment_analysis_id = last'.listed[last'.selected].id

SubmittedWithExplanation ==
    last'.op = "feedback" /\ last'.shown /\ last'.submit /\ last'.explanation # ""

C6_FilterSelectsModel ==
    (last.op = "list" /\ last.filter # None) =>
        \A i \in 1..Len(last.listed) :
            /\ last.listed[i].model_name = last.filter
            /\ last.listed[i] \in Range(SelectAnalyses(DB, None))

\* C7: get_sentiment_analyses() directly after save_sentiment_analysis(s, m, x)
\* for an existing song s, with no statement failed by the engine, returns a
\* record with the id the save returned, model m, score x and the title of s.
C7_SavedAnalysisIsListed ==
    (last.op = "list" /\ last.afterSave /\ last.existed /\ last.filter = None /\ ~last.fault)
        => \E i \in 1..Len(last.listed) :
              /\ last.listed[i].id = last.ret
              /\ last.listed[i].model_name = last.model_name
              /\ last.listed[i].sentiment_score = last.score
              /\ last.listed[i].title = TitleOf(View(DB), last.song_id)

\* C8: a run of the seeder on a store that held a song leaves the number of
\* songs and the number of analyses as they were, and no sample song is ever
\* stored twice.
C8_SeederIdempotent ==
    /\ (last.op = "seed" /\ last.nSongs >= 1)
           => (Len(songs) = last.nSongs /\ Len(analyses) = last.nAnalyses)
    /\ \A i, j \in 1..Len(songs) : songs[i].title = songs[j].title => i = j

\* C8 witness: the seeder ran its count query, on an open handle, against a
\* store that already held both songs.
C8_Witness ==
    /\ last.op = "seed" /\ last.nSongs = 2 /\ last.msgs = {} /\ cache = "open"
    /\ Len(songs) = 2

\* Every analysis belongs to a stored song; every feedback row names a stored
\* song and a stored analysis of that song.
RefIntegrityOf(ss, as, qs) ==
    /\ \A i \in 1..Len(as) : HasSong(ss, as[i].song_id)
    /\ \A k \in 1..Len(qs) :
          /\ HasSong(ss, qs[k].song_id)
          /\ \E i \in 1..Len(as) :
                as[i].id = qs[k].sentiment_analysis_id /\ as[i].song_id = qs[k].song_id

\* C9 as stated: referential integrity holds in every reachable state.
C9_RefIntegrity == RefIntegrityOf(songs, analyses, qa)

\* C9 as amended: referential integrity holds at the start and every step
\* keeps it, except a save_sentiment_analysis call whose song_id names no song.
C9_RefIntegrityKept ==
    /\ RefIntegrityOf(songs, analyses, qa)
    /\ [][(RefIntegrityOf(songs, analyses, qa) /\ ~(last'.op = "save" /\ ~last'.existed))
             => RefIntegrityOf(songs', analyses', qa')]_vars

\* C9 witness: a save for an existing song added a row to the seeded store,
\* and integrity holds.
C9_Witness ==
    /\ last.op = "save" /\ last.existed /\ last.ret # NoId
    /\ Len(songs) = 2 /\ Len(analyses) = 5
    /\ RefIntegrityOf(songs, analyses, qa)

\* C10: after a run of the seeder on an empty store the file holds nothing, or
\* both songs with two analyses each.
C10_SeedingAllOrNothing ==
    (last.op = "seed" /\ last.nSongs = 0 /\ last.nAnalyses = 0) =>
        \/ Len(songs) = 0 /\ Len(analyses) = 0
        \/ Len(songs) = 2 /\ Len(analyses) = 4 /\ TwoAnalysesEach

====
